---- MODULE Spec2Model ----
(***************************************************************************)
(* CodeInsight-CLI: the explanation orchestration core.                    *)
(*                                                                         *)
(* CodeExplainer.explain (src/src/core/explainer.py) is modelled as a      *)
(* stack of call frames per request: the top-level call and, after a      *)
(* failed generation, the recursive retry.  A frame moves through          *)
(*   validate -> resolve -> probe -> stream                                *)
(* and every step is the code between two interactions with the outside    *)
(* (validator LLM call, availability probe, disk cache, backend stream).   *)
(* Strings are TLA+ strings; the cache key is built as the code builds it. *)
(***************************************************************************)
EXTENDS Integers, Sequences, FiniteSets, TLC

VARIABLES
    api_key,              \* GeminiProvider.api_key is non-empty (settings.gemini_api_key)
    is_available_cache,   \* OllamaProvider._is_available_cache: "None" | "True" | "False"
    use_cache,            \* CodeExplainer.use_cache (settings.cache_enabled)
    cache,                \* diskcache.Cache contents: set of [key, value, expire_time]
    now,                  \* time.time()
    ticks,                \* number of clock advances so far
    stack,                \* request -> sequence of explain frames (last = innermost)
    obs,                  \* request -> what its top-level explain call has done so far
    key_in,               \* fingerprinting: the two (code, provider, model) triples
    key_out,              \* fingerprinting: their keys, once computed
    val_in,               \* validator alone: the code and the providers' answers
    val_out,              \* validator alone: what _validate_input_code returned
    checks,               \* memo alone: thread -> its call of OllamaProvider.is_available
    met_in,               \* metrics alone: the PerformanceMetrics value
    met_out               \* metrics alone: its total_time and tokens_per_second

vars == <<api_key, is_available_cache, use_cache, cache, now, ticks,
          stack, obs, key_in, key_out, val_in, val_out, checks, met_in, met_out>>

-----------------------------------------------------------------------------
(* Bounds of the model *)

MaxTicks == 1
MaxChunks == 2
MaxDepth == 3

-----------------------------------------------------------------------------
(* Settings (src/src/config.py) *)

default_provider == "gemini"
gemini_model == "gemini-2.5-flash"
ollama_model == "llama3.2:1b"
cache_ttl == 604800
min_code_length == 10
max_code_length == 100000

None == "<None>"

-----------------------------------------------------------------------------
(* Strings *)

Whitespace == {" ", "\n", "\t"}

RECURSIVE LStrip(_)
LStrip(s) ==
    IF Len(s) = 0 THEN s
    ELSE IF SubSeq(s, 1, 1) \in Whitespace THEN LStrip(SubSeq(s, 2, Len(s)))
    ELSE s

RECURSIVE RStrip(_)
RStrip(s) ==
    IF Len(s) = 0 THEN s
    ELSE IF SubSeq(s, Len(s), Len(s)) \in Whitespace THEN RStrip(SubSeq(s, 1, Len(s) - 1))
    ELSE s

\* str.strip()
Strip(s) == RStrip(LStrip(s))

\* `sub in s`
Contains(s, sub) ==
    \E i \in 1..(Len(s) - Len(sub) + 1) : SubSeq(s, i, i + Len(sub) - 1) = sub

Upper == "ABCDEFGHIJKLMNOPQRSTUVWXYZ"
LowerLetters == "abcdefghijklmnopqrstuvwxyz"

LowerChar(ch) ==
    IF \E i \in 1..Len(Upper) : SubSeq(Upper, i, i) = ch
    THEN LET i == CHOOSE j \in 1..Len(Upper) : SubSeq(Upper, j, j) = ch
         IN  SubSeq(LowerLetters, i, i)
    ELSE ch

RECURSIVE Lower(_)
\* str.lower()
Lower(s) ==
    IF Len(s) = 0 THEN s
    ELSE LowerChar(SubSeq(s, 1, 1)) \o Lower(SubSeq(s, 2, Len(s)))

-----------------------------------------------------------------------------
(* Inputs *)

\* the requests: each is one top-level call of explain
Callers == DOMAIN stack

\* code texts: one below min_code_length, one that passes the size checks
Codes == {"x = 1", "print(1+2)"}

\* provider_name arguments: the default, a registered name, an unknown name
ProviderArgs == {None, "ollama", "mistral"}

\* text of one streamed chunk: none, whitespace, a word
ChunkTexts == {"", " ", "Hi"}

\* total token count reported with the end of the stream, if any
TokenCounts == {{20}}

\* str(e) of an upstream failure
UpstreamErrors == {"429 Quota exceeded"}

\* how far the clock moves in one advance
TickSteps == {1, cache_ttl}

-----------------------------------------------------------------------------
(* Providers *)

\* CodeExplainer.providers: the registered names
ProviderNames == {"gemini", "ollama"}

\* BaseProvider.model of the registered provider
ModelOf(name) == IF name = "gemini" THEN gemini_model ELSE ollama_model

\* is_available(): the value returned; `up` tells whether ollama.list()
\* succeeds if it is called now
IsAvailable(name, up) ==
    IF name = "gemini" THEN api_key
    ELSE IF is_available_cache # "None" THEN is_available_cache = "True"
    ELSE up

\* is_available(): the memo after the call (only OllamaProvider keeps one)
MemoAfter(memo, name, up) ==
    IF name = "ollama" /\ memo = "None"
    THEN (IF up THEN "True" ELSE "False")
    ELSE memo

\* the memo after is_available() was called on each provider of `names`
MemoAfterAll(names, up) ==
    IF "ollama" \in names THEN MemoAfter(is_available_cache, "ollama", up)
    ELSE is_available_cache

-----------------------------------------------------------------------------
(* Data model (src/src/models/models.py).  An Optional field is the empty  *)
(* set when it is None and a singleton when it is set.                     *)

\* PerformanceMetrics(model=..., model_provider=..., start_time=...)
PerformanceMetrics(model, model_provider, start_time) ==
    [model |-> model, model_provider |-> model_provider, start_time |-> start_time,
     end_time |-> {}, time_to_first_token |-> {}, total_tokens |-> {},
     error |-> {}, cache_hit |-> FALSE]

\* ExplanationResult(original_code=..., explanation=..., metrics=...)
ExplanationResult(original_code, explanation, metrics, timestamp) ==
    [original_code |-> original_code, explanation |-> explanation,
     metrics |-> metrics, timestamp |-> timestamp]

\* ValidationResult(is_valid=..., reason=..., confidence=...)
ValidationResult(is_valid, reason, confidence) ==
    [is_valid |-> is_valid, reason |-> reason, confidence |-> confidence]

\* an exception: its class and str(e)
Exception(type, msg) == [type |-> type, msg |-> msg]

-----------------------------------------------------------------------------
(* Cache: the key, and diskcache's get / set as explain uses them *)

\* hashlib.sha256(...).hexdigest(), taken to be injective: the digest is
\* represented by the text that is hashed
Sha256(text) == text

\* CodeExplainer._get_cache_key
CacheKey(code, provider_name, model) ==
    Sha256(code \o "|" \o provider_name \o "|" \o model)

\* self.cache.get(cache_key): the stored values under `key` that have not
\* expired at time t (empty = None); an entry without expiry never expires
CacheGet(c, key, t) ==
    {e.value : e \in {x \in c : /\ x.key = key
                                /\ \A ex \in x.expire_time : ex > t}}

\* self.cache.set(cache_key, value, expire=ttl) at time t: overwrites
CacheSet(c, key, value, ttl, t) ==
    {x \in c : x.key # key} \cup
        {[key |-> key, value |-> value, expire_time |-> {t + d : d \in ttl}]}

-----------------------------------------------------------------------------
(* Validator: CodeExplainer._validate_input_code *)

\* what provider.generate_structured can do: return a ValidationResult
\* parsed from the model's answer, or raise ProviderError(text)
StructuredAnswers ==
    {[raised |-> FALSE, is_valid |-> TRUE,  text |-> "looks like code"],
     [raised |-> FALSE, is_valid |-> FALSE, text |-> "not code"],
     [raised |-> TRUE,  is_valid |-> FALSE, text |-> "empty structured response"]}

\* str(e) of the ProviderError generate_structured raises
StructuredError(name, text) ==
    (IF name = "gemini" THEN "Gemini" ELSE "Ollama")
        \o " structured generation error: " \o text

\* faulty variant of SizeCheck: the minimum is compared with the raw length
SizeCheck_RawLength(code) ==
    IF Len(code) < min_code_length
    THEN {ValidationResult(FALSE, "Code is too short (minimum 10 characters)", "1.0")}
    ELSE IF Len(code) > max_code_length
    THEN {ValidationResult(FALSE, "Code is too large (maximum 100KB)", "1.0")}
    ELSE {}

\* the heuristic size checks; empty when the code passes them
SizeCheck(code) ==
    IF Len(Strip(code)) < min_code_length
    THEN {ValidationResult(FALSE, "Code is too short (minimum 10 characters)", "1.0")}
    ELSE IF Len(code) > max_code_length
    THEN {ValidationResult(FALSE, "Code is too large (maximum 100KB)", "1.0")}
    ELSE {}

\* s repeated n times
RECURSIVE Repeat(_, _)
Repeat(s, n) ==
    IF n = 0 THEN ""
    ELSE LET h == Repeat(s, n \div 2) IN
         IF n % 2 = 0 THEN h \o h ELSE h \o h \o s

\* code texts for the validator alone: too short, long enough only with its
\* surrounding whitespace, of the minimum length, of the maximum length, and
\* one character longer than that
ValidatorCodes ==
    Codes \cup {"   x = 1   ", Repeat("x", max_code_length),
                Repeat("x", max_code_length + 1)}

\* SizeCheck of every code text of the model
SizeChecks == [code \in ValidatorCodes |-> SizeCheck(code)]

\* faulty variant of ValidatorOrder: the remote provider is asked first
ValidatorOrder_GeminiFirst == <<"gemini", "ollama">>

\* the providers the loop `for provider_name in ["ollama", "gemini"]` asks
ValidatorOrder == <<"ollama", "gemini">>

\* faulty variant of FailOpen: code no validator could judge is rejected
FailOpen_Rejects(errors) ==
    ValidationResult(FALSE, "Validation check skipped due to errors: " \o errors, "0.5")

\* lines 131-138: the result when no provider gave an answer; errors is
\* "; ".join(validation_errors)
FailOpen(errors) ==
    ValidationResult(TRUE, "Validation check skipped due to errors: " \o errors, "0.5")

\* One run of the validator loop from position i, given what each provider
\* would answer (ans: provider name -> element of StructuredAnswers).
\* Returns [result, asked]: the ValidationResult and the providers whose
\* generate_structured was called, in order.
RECURSIVE ValidatorLoop(_, _, _, _, _)
ValidatorLoop(i, ans, up, asked, errors) ==
    IF i > Len(ValidatorOrder)
    THEN [result |-> FailOpen(errors), asked |-> asked]
    ELSE LET name == ValidatorOrder[i] IN
         IF ~IsAvailable(name, up)
         THEN ValidatorLoop(i + 1, ans, up, asked, errors)
         ELSE IF ~ans[name].raised
         THEN [result |-> ValidationResult(ans[name].is_valid, ans[name].text, "0.8"),
               asked |-> Append(asked, name)]
         ELSE ValidatorLoop(i + 1, ans, up, Append(asked, name),
                  (IF errors = "" THEN "" ELSE errors \o "; ")
                      \o name \o ": " \o StructuredError(name, ans[name].text))

\* _validate_input_code(code)
ValidateInputCode(code, ans, up) ==
    IF SizeChecks[code] # {}
    THEN [result |-> CHOOSE r \in SizeChecks[code] : TRUE, asked |-> <<>>]
    ELSE ValidatorLoop(1, ans, up, <<>>, "")

\* the providers whose is_available() the validator calls for `code`: the
\* loop always starts with ollama
ValidatorProbed(code) == IF SizeChecks[code] # {} THEN {} ELSE {"ollama"}

\* faulty variant of ValidationRejects: the validator's verdict is ignored
ValidationRejects_Ignored(v) == FALSE

\* `if not validation_result.is_valid` in explain
ValidationRejects(v) == ~v.is_valid

-----------------------------------------------------------------------------
(* Provider resolution *)

\* faulty variant of GetProvider: is_available() is not consulted
GetProvider_SkipsAvailability(provider_name, up) ==
    LET name == IF provider_name # None THEN provider_name ELSE default_provider IN
    IF name \notin ProviderNames
    THEN [provider |-> {}, error |-> {Exception("ValueError", "Unknown provider: " \o name)}]
    ELSE [provider |-> {name}, error |-> {}]

\* _get_provider(provider_name): [provider, error], one of them empty
GetProvider(provider_name, up) ==
    LET name == IF provider_name # None THEN provider_name ELSE default_provider IN
    IF name \notin ProviderNames
    THEN [provider |-> {}, error |-> {Exception("ValueError", "Unknown provider: " \o name)}]
    ELSE IF ~IsAvailable(name, up)
    THEN [provider |-> {}, error |-> {Exception("ValueError",
              "Provider " \o name \o " is not available (missing API key)")}]
    ELSE [provider |-> {name}, error |-> {}]

\* the providers whose is_available() _get_provider calls
GetProviderProbed(provider_name) ==
    {IF provider_name # None THEN provider_name ELSE default_provider} \cap ProviderNames

\* faulty variant of FallbackName: the failed provider is picked again
FallbackName_Same(failed_provider) == failed_provider

\* `fallback_name` in _get_fallback_provider
FallbackName(failed_provider) ==
    IF failed_provider = "gemini" THEN "ollama" ELSE "gemini"

\* _get_fallback_provider(failed_provider): the fallback provider, or empty
GetFallbackProvider(failed_provider, up) ==
    IF FallbackName(failed_provider) \in ProviderNames
           /\ IsAvailable(FallbackName(failed_provider), up)
    THEN {FallbackName(failed_provider)}
    ELSE {}

\* faulty variant of ResolveProvider: a failed resolution is never repaired
ResolveProvider_NoSubstitute(provider_name, auto_fallback, up) ==
    LET got == GetProvider(provider_name, up)
        failed_provider_name ==
            IF provider_name # None THEN provider_name ELSE default_provider
    IN  IF got.error = {}
        THEN [provider |-> got.provider, error |-> {},
              probed |-> GetProviderProbed(provider_name)]
        ELSE IF ~auto_fallback
        THEN [provider |-> {}, error |-> got.error,
              probed |-> GetProviderProbed(provider_name)]
        ELSE [provider |-> {},
              error |-> {Exception("ValueError", "No ML providers are available")},
              probed |-> GetProviderProbed(provider_name)
                             \cup {FallbackName(failed_provider_name)}]

\* explain, lines 170-181: [provider, error, probed]
ResolveProvider(provider_name, auto_fallback, up) ==
    LET got == GetProvider(provider_name, up)
        failed_provider_name ==
            IF provider_name # None THEN provider_name ELSE default_provider
        fb == GetFallbackProvider(failed_provider_name, up)
    IN  IF got.error = {}
        THEN [provider |-> got.provider, error |-> {},
              probed |-> GetProviderProbed(provider_name)]
        ELSE IF ~auto_fallback
        THEN [provider |-> {}, error |-> got.error,
              probed |-> GetProviderProbed(provider_name)]
        ELSE IF fb = {}
        THEN [provider |-> {},
              error |-> {Exception("ValueError", "No ML providers are available")},
              probed |-> GetProviderProbed(provider_name)
                             \cup {FallbackName(failed_provider_name)}]
        ELSE [provider |-> fb, error |-> {},
              probed |-> GetProviderProbed(provider_name)
                             \cup {FallbackName(failed_provider_name)}]

-----------------------------------------------------------------------------
(* Backends: what _invoke_model raises *)

\* GeminiProvider._invoke_model, `except Exception as e`: the exception
\* raised for an upstream failure whose str(e) is msg
GeminiClassify(msg) ==
    LET error_msg == Lower(msg) IN
    IF Contains(error_msg, "quota") \/ Contains(error_msg, "rate limit")
           \/ Contains(error_msg, "429")
    THEN Exception("RateLimitError", "Gemini rate limit exceeded: " \o msg)
    ELSE IF Contains(error_msg, "timeout") \/ Contains(error_msg, "timed out")
    THEN Exception("APITimeoutError", "Gemini API timeout: " \o msg)
    ELSE IF Contains(error_msg, "not found") \/ Contains(error_msg, "invalid model")
           \/ Contains(error_msg, "404")
    THEN Exception("ModelUnavailableError",
             "Gemini model '" \o gemini_model \o "' not available: " \o msg)
    ELSE IF Contains(error_msg, "unauthorized") \/ Contains(error_msg, "invalid api key")
           \/ Contains(error_msg, "401") \/ Contains(error_msg, "403")
    THEN Exception("ProviderError",
             "Gemini authentication failed. Check your GEMINI_API_KEY: " \o msg)
    ELSE Exception("ProviderError", "Gemini API error: " \o msg)

\* OllamaProvider._invoke_model, `except Exception as e`
OllamaClassify(msg) ==
    LET error_msg == Lower(msg) IN
    IF Contains(error_msg, "connection") \/ Contains(error_msg, "refused")
           \/ Contains(error_msg, "unreachable")
    THEN Exception("ProviderError",
             "Cannot connect to Ollama server. Is it running? Try: ollama serve")
    ELSE IF Contains(error_msg, "model")
           /\ (Contains(error_msg, "not found") \/ Contains(error_msg, "pull"))
    THEN Exception("ModelUnavailableError",
             "Ollama model '" \o ollama_model \o "' not found. Try: ollama pull "
                 \o ollama_model)
    ELSE IF Contains(error_msg, "timeout") \/ Contains(error_msg, "timed out")
    THEN Exception("APITimeoutError", "Ollama request timed out: " \o msg)
    ELSE Exception("ProviderError", "Ollama error: " \o msg)

\* the exception _invoke_model of provider `name` raises
Classify(name, msg) ==
    IF name = "gemini" THEN GeminiClassify(msg) ELSE OllamaClassify(msg)

\* `raise ProviderError("... returned empty response")` inside the try block
EmptyResponse(name) ==
    IF name = "gemini" THEN "Gemini returned empty response"
    ELSE "Ollama returned empty response"

\* Classify of every failure of the model: the upstream ones and the empty
\* response, which is raised inside the same try block
Raises ==
    [name \in ProviderNames |->
        [msg \in UpstreamErrors \cup {EmptyResponse(name)} |-> Classify(name, msg)]]

-----------------------------------------------------------------------------
(* Frames of explain and the record of what a top-level call did *)

\* entry of explain(code, provider_name, auto_fallback, stream_callback,
\* validate_input): `if validate_input` decides the first step
Frame(code, provider_name, auto_fallback, stream_callback, validate_input) ==
    [code |-> code, provider_name |-> provider_name, auto_fallback |-> auto_fallback,
     stream_callback |-> stream_callback, validate_input |-> validate_input,
     pc |-> IF validate_input THEN "validate" ELSE "resolve",
     provider |-> None, cache_key |-> None, metrics |-> {},
     explanation |-> "", chunks |-> 0, emitted |-> <<>>]

\* faulty variant of RetryFrame: the retry keeps the caller's auto_fallback
RetryFrame_KeepsFallback(f, fallback) ==
    [code |-> f.code, provider_name |-> fallback, auto_fallback |-> f.auto_fallback,
     stream_callback |-> f.stream_callback, validate_input |-> FALSE,
     pc |-> "resolve", provider |-> None, cache_key |-> None, metrics |-> {},
     explanation |-> "", chunks |-> 0, emitted |-> <<>>]

\* the recursive call in the except branch: self.explain(code,
\* provider_name=fallback_provider.name, auto_fallback=False,
\* stream_callback=stream_callback, validate_input=False)
RetryFrame(f, fallback) ==
    Frame(f.code, fallback, FALSE, f.stream_callback, FALSE)

\* nothing done yet
NoObs ==
    [call |-> {}, sink |-> <<>>, gen |-> <<>>, structured |-> <<>>, validation |-> {},
     resolved |-> <<>>, probes |-> <<>>, writes |-> <<>>, retries |-> <<>>,
     done |-> FALSE, result |-> {}, error |-> {}, via |-> "none", depth |-> 0,
     emitted |-> <<>>, failures |-> <<>>, answers |-> <<>>]

Top(c) == stack[c][Len(stack[c])]
Depth(c) == Len(stack[c])
Running(c, pc) == stack[c] # <<>> /\ Top(c).pc = pc

\* the innermost frame of caller c replaced by f
WithTop(c, f) == [stack EXCEPT ![c] = [@ EXCEPT ![Len(@)] = f]]

\* explain raises e to the caller: an exception of the retry passes through
\* the except branch of the outer frame
Raised(o, e, depth) ==
    [o EXCEPT !.done = TRUE, !.error = {e}, !.via = "raise", !.depth = depth]

\* explain returns r to the caller
Returned(o, r, via, depth) ==
    [o EXCEPT !.done = TRUE, !.result = {r}, !.via = via, !.depth = depth]

-----------------------------------------------------------------------------
(* Steps of explain *)

\* faulty variant of IsHit: a cached result is not recognised
IsHit_Never(cached) == FALSE

\* `if cached_result is not None`
IsHit(cached) == cached # {}

\* faulty variant of HitResult: the first-token time is rewritten too
HitResult_ResetsFirstToken(r, cache_start, end_time) ==
    [r EXCEPT !.metrics.cache_hit = TRUE,
              !.metrics.start_time = cache_start,
              !.metrics.end_time = {end_time},
              !.metrics.time_to_first_token = {0}]

\* the cache-hit branch: the cached result with its metrics rewritten
HitResult(r, cache_start, end_time) ==
    [r EXCEPT !.metrics.cache_hit = TRUE,
              !.metrics.start_time = cache_start,
              !.metrics.end_time = {end_time}]

\* faulty variant of HitCallbacks: the cached text is replayed in two pieces
HitCallbacks_Split(f, r) ==
    IF f.stream_callback
    THEN <<SubSeq(r.explanation, 1, 1), SubSeq(r.explanation, 2, Len(r.explanation))>>
    ELSE <<>>

\* the cache-hit branch: the calls made to stream_callback
HitCallbacks(f, r) == IF f.stream_callback THEN <<r.explanation>> ELSE <<>>

\* faulty variant of SaveToCache: the key is that of the default provider
SaveToCache_DefaultKey(c, f, result, t) ==
    IF use_cache /\ f.cache_key # None
    THEN CacheSet(c, CacheKey(f.code, default_provider, ModelOf(default_provider)),
                  result, {cache_ttl}, t)
    ELSE c

\* faulty variant of SaveToCache: an entry already under the key is kept
SaveToCache_KeepsExisting(c, f, result, t) ==
    IF use_cache /\ f.cache_key # None /\ \A x \in c : x.key # f.cache_key
    THEN CacheSet(c, f.cache_key, result, {cache_ttl}, t)
    ELSE c

\* faulty variant of SaveToCache: the result is saved without expire=
SaveToCache_NoExpire(c, f, result, t) ==
    IF use_cache /\ f.cache_key # None
    THEN CacheSet(c, f.cache_key, result, {}, t)
    ELSE c

\* `if self.use_cache and cache_key: self.cache.set(cache_key, result,
\* expire=self.cache_ttl)` at time t
SaveToCache(c, f, result, t) ==
    IF use_cache /\ f.cache_key # None
    THEN CacheSet(c, f.cache_key, result, {cache_ttl}, t)
    ELSE c

\* faulty variant of CacheOnFailure: the text received so far is saved
CacheOnFailure_SavesPartial(c, f, t) ==
    IF use_cache /\ f.cache_key # None
    THEN CacheSet(c, f.cache_key,
             ExplanationResult(f.code, Strip(f.explanation),
                 CHOOSE m \in f.metrics : TRUE, t), {cache_ttl}, t)
    ELSE c

\* the except branch of explain: what it does to the cache (nothing)
CacheOnFailure(c, f, t) == c

\* request c calls explain(code, provider_name, auto_fallback,
\* stream_callback, validate_input)
Call(c, code, provider_name, auto_fallback, stream_callback, validate_input) ==
    /\ stack[c] = <<>>
    /\ obs[c].call = {}
    /\ stack' = [stack EXCEPT ![c] =
           <<Frame(code, provider_name, auto_fallback, stream_callback, validate_input)>>]
    /\ obs' = [obs EXCEPT ![c].call =
           {Frame(code, provider_name, auto_fallback, stream_callback, validate_input)}]
    /\ UNCHANGED <<api_key, is_available_cache, use_cache, cache, now,
                   ticks, key_in, key_out, val_in, val_out,
                   checks, met_in, met_out>>

\* explain, lines 164-168: run the validator, raise if it rejects
Validate(c, ans, up) ==
    /\ Running(c, "validate")
    /\ LET f == Top(c)
           v == ValidateInputCode(f.code, ans, up)
           o == [obs[c] EXCEPT !.structured = v.asked, !.validation = {v.result},
                    !.answers = [i \in 1..Len(v.asked) |-> ans[v.asked[i]]]]
       IN  /\ is_available_cache' = MemoAfterAll(ValidatorProbed(f.code), up)
           /\ IF ValidationRejects(v.result)
              THEN /\ stack' = [stack EXCEPT ![c] = <<>>]
                   /\ obs' = [obs EXCEPT ![c] = Raised(o,
                          Exception("ValueError",
                              "Input validation failed: " \o v.result.reason), Depth(c))]
              ELSE /\ stack' = WithTop(c, [f EXCEPT !.pc = "resolve"])
                   /\ obs' = [obs EXCEPT ![c] = o]
    /\ UNCHANGED <<api_key, use_cache, cache, now, ticks,
                   key_in, key_out, val_in, val_out,
                   checks, met_in, met_out>>

\* explain, lines 170-181: resolve the provider, substituting the other one
Resolve(c, up) ==
    /\ Running(c, "resolve")
    /\ LET f == Top(c)
           r == ResolveProvider(f.provider_name, f.auto_fallback, up)
           o == [obs[c] EXCEPT !.resolved =
                    Append(@, [depth |-> Depth(c), provider |-> r.provider])]
       IN  /\ is_available_cache' = MemoAfterAll(r.probed, up)
           /\ IF r.error # {}
              THEN /\ stack' = [stack EXCEPT ![c] = <<>>]
                   /\ obs' = [obs EXCEPT ![c] =
                          Raised(o, CHOOSE e \in r.error : TRUE, Depth(c))]
              ELSE /\ stack' = WithTop(c, [f EXCEPT !.pc = "probe",
                          !.provider = CHOOSE p \in r.provider : TRUE])
                   /\ obs' = [obs EXCEPT ![c] = o]
    /\ UNCHANGED <<api_key, use_cache, cache, now, ticks,
                   key_in, key_out, val_in, val_out,
                   checks, met_in, met_out>>

\* explain, lines 183-208: probe the cache; on a hit return the cached
\* result, on a miss create the metrics and start the generation
Probe(c) ==
    /\ Running(c, "probe")
    /\ LET f == Top(c)
           cache_key == IF use_cache
                        THEN CacheKey(f.code, f.provider, ModelOf(f.provider))
                        ELSE None
           cached == IF use_cache THEN CacheGet(cache, cache_key, now) ELSE {}
           o == IF use_cache
                THEN [obs[c] EXCEPT !.probes = Append(@,
                         [depth |-> Depth(c), key |-> cache_key, at |-> now,
                          stored |-> {x \in cache : x.key = cache_key},
                          cached |-> cached])]
                ELSE obs[c]
       IN  IF IsHit(cached)
           THEN LET r == HitResult(CHOOSE x \in cached : TRUE, now, now)
                    cb == HitCallbacks(f, r)
                IN  /\ stack' = [stack EXCEPT ![c] = <<>>]
                    /\ obs' = [obs EXCEPT ![c] = Returned(
                           [o EXCEPT !.sink = @ \o
                               [i \in 1..Len(cb) |-> [depth |-> Depth(c), text |-> cb[i]]]],
                           r, "hit", Depth(c))]
           ELSE /\ stack' = WithTop(c, [f EXCEPT !.pc = "stream",
                       !.cache_key = cache_key,
                       !.metrics = {PerformanceMetrics(ModelOf(f.provider), f.provider, now)}])
                /\ obs' = [obs EXCEPT ![c] = [o EXCEPT !.gen =
                       Append(@, [depth |-> Depth(c), provider |-> f.provider])]]
    /\ UNCHANGED <<api_key, is_available_cache, use_cache, cache, now,
                   ticks, key_in, key_out, val_in, val_out,
                   checks, met_in, met_out>>

\* faulty variant of Accumulate: only the last chunk's text is kept
Accumulate_Overwrite(explanation, text) == text

\* `explanation += chunk.text`
Accumulate(explanation, text) == explanation \o text

\* faulty variant of Forwarded: a chunk without text is forwarded too
Forwarded_All(f, text) == IF f.stream_callback THEN <<text>> ELSE <<>>

\* `if chunk.text: ... if stream_callback: stream_callback(chunk.text)`: the
\* calls made to stream_callback for one chunk
Forwarded(f, text) == IF text # "" /\ f.stream_callback THEN <<text>> ELSE <<>>

\* faulty variant of FirstTokenTime: the clock reading itself is recorded
FirstTokenTime_Absolute(m, t) == [m EXCEPT !.time_to_first_token = {t}]

\* `first_token_time = time.time(); metrics.time_to_first_token =
\* first_token_time - metrics.start_time` at time t
FirstTokenTime(m, t) == [m EXCEPT !.time_to_first_token = {t - m.start_time}]

\* _invoke_model, one iteration of `for chunk in ...`: the backend yields a
\* chunk whose text is `text`; f.emitted is what the stream has yielded
Chunk(c, text) ==
    /\ Running(c, "stream")
    /\ Top(c).chunks < MaxChunks
    /\ LET f == Top(c)
           m == CHOOSE x \in f.metrics : TRUE
           m2 == IF m.time_to_first_token = {} /\ text # ""
                 THEN FirstTokenTime(m, now)
                 ELSE m
           cb == Forwarded(f, text)
       IN  /\ stack' = WithTop(c, [f EXCEPT !.chunks = @ + 1,
                  !.explanation = IF text # "" THEN Accumulate(@, text) ELSE @,
                  !.metrics = {m2}, !.emitted = Append(@, text)])
           /\ obs' = [obs EXCEPT ![c].sink = @ \o
                  [i \in 1..Len(cb) |-> [depth |-> Depth(c), text |-> cb[i]]]]
    /\ UNCHANGED <<api_key, is_available_cache, use_cache, cache, now,
                   ticks, key_in, key_out, val_in, val_out,
                   checks, met_in, met_out>>

\* faulty variant of FailedMetrics: the failure message is not recorded
FailedMetrics_NoError(m, e, t) == [m EXCEPT !.end_time = {t}]

\* explain_code's `metrics.error = str(e)` and explain's
\* `metrics.end_time = time.time(); metrics.error = str(e)` at time t
FailedMetrics(m, e, t) == [m EXCEPT !.end_time = {t}, !.error = {e.msg}]

\* explain, lines 223-238, with explain_code's `metrics.error = str(e)`:
\* the generation of the innermost frame failed with exception e, which
\* _invoke_model raised for the failure whose text is raw; the text
\* accumulated so far is a local of _invoke_model and is gone
Failed(c, e, raw, m, up) ==
    LET f == Top(c)
        m2 == FailedMetrics(m, e, now)
        fb == IF f.auto_fallback THEN GetFallbackProvider(f.provider, up) ELSE {}
        o == [obs[c] EXCEPT !.failures = Append(@,
                 [depth |-> Depth(c), provider |-> f.provider, raw |-> raw,
                  error |-> e, metrics |-> m2, had_text |-> f.explanation # ""])]
        outer == [f EXCEPT !.pc = "except", !.metrics = {m2},
                           !.explanation = "", !.chunks = 0, !.emitted = <<>>]
    IN  /\ cache' = CacheOnFailure(cache, [f EXCEPT !.metrics = {m2}], now)
        /\ is_available_cache' =
               MemoAfterAll(IF f.auto_fallback THEN {FallbackName(f.provider)} ELSE {}, up)
        /\ IF fb # {}
           THEN /\ Depth(c) < MaxDepth
                /\ stack' = [stack EXCEPT ![c] = Append(
                       [@ EXCEPT ![Len(@)] = outer],
                       RetryFrame(f, CHOOSE p \in fb : TRUE))]
                /\ obs' = [obs EXCEPT ![c] = [o EXCEPT !.retries = Append(@,
                       RetryFrame(f, CHOOSE p \in fb : TRUE))]]
           ELSE /\ stack' = [stack EXCEPT ![c] = <<>>]
                /\ obs' = [obs EXCEPT ![c] = Raised(o, e, Depth(c))]

\* faulty variant of IsEmptyResponse: an empty text is returned as it is
IsEmptyResponse_Never(explanation) == FALSE

\* `if not explanation` after the chunk loop
IsEmptyResponse(explanation) == explanation = ""

\* the backend's stream ends: _invoke_model returns the text or raises for
\* an empty one; explain_code strips it; explain builds the result, saves
\* it to the cache and returns it (lines 209-221)
StreamEnd(c, tokens, up) ==
    /\ Running(c, "stream")
    /\ LET f == Top(c)
           m == [(CHOOSE x \in f.metrics : TRUE) EXCEPT !.total_tokens = tokens]
       IN  IF IsEmptyResponse(f.explanation)
           THEN Failed(c, Raises[f.provider][EmptyResponse(f.provider)],
                       EmptyResponse(f.provider), m, up)
           ELSE LET result == ExplanationResult(f.code, Strip(f.explanation),
                                  [m EXCEPT !.end_time = {now}], now)
                IN  /\ cache' = SaveToCache(cache, f, result, now)
                    /\ stack' = [stack EXCEPT ![c] = <<>>]
                    /\ obs' = [obs EXCEPT ![c] = Returned(
                           [obs[c] EXCEPT !.writes =
                               IF use_cache /\ f.cache_key # None
                               THEN Append(@, [depth |-> Depth(c), key |-> f.cache_key])
                               ELSE @,
                             !.emitted = f.emitted],
                           result, "generate", Depth(c))]
                    /\ UNCHANGED is_available_cache
    /\ UNCHANGED <<api_key, use_cache, now, ticks, key_in, key_out, val_in, val_out,
                   checks, met_in, met_out>>

\* the backend request or its stream raises an exception whose text is msg
StreamFail(c, msg, up) ==
    /\ Running(c, "stream")
    /\ Failed(c, Raises[Top(c).provider][msg], msg,
              CHOOSE x \in Top(c).metrics : TRUE, up)
    /\ UNCHANGED <<api_key, use_cache, now, ticks, key_in, key_out, val_in, val_out,
                   checks, met_in, met_out>>

\* the caller interrupts the call (KeyboardInterrupt is no Exception: no
\* except branch of explain or of the providers handles it)
Cancel(c) ==
    /\ stack[c] # <<>>
    /\ stack' = [stack EXCEPT ![c] = <<>>]
    /\ obs' = [obs EXCEPT ![c] = [@ EXCEPT !.done = TRUE, !.via = "interrupt",
           !.depth = Depth(c)]]
    /\ UNCHANGED <<api_key, is_available_cache, use_cache, cache, now,
                   ticks, key_in, key_out, val_in, val_out,
                   checks, met_in, met_out>>

-----------------------------------------------------------------------------
(* Environment *)

\* time passes
Tick(d) ==
    /\ ticks < MaxTicks
    /\ ticks' = ticks + 1
    /\ now' = now + d
    /\ UNCHANGED <<api_key, is_available_cache, use_cache, cache,
                   stack, obs, key_in, key_out, val_in, val_out, checks, met_in, met_out>>

-----------------------------------------------------------------------------
(* Specification of the orchestrator: one request, against every state of *)
(* the disk cache that earlier requests can have left                      *)

NoKeys == <<>>

\* a result an earlier explain call generated and saved at time 0: that
\* call started at -1 and received its first text after one unit of time
PriorResult(code, provider) ==
    ExplanationResult(code, "Hello",
        [PerformanceMetrics(ModelOf(provider), provider, -1) EXCEPT
            !.end_time = {0}, !.time_to_first_token = {1}, !.total_tokens = {20}], 0)

\* the disk cache after earlier calls saved results for `pairs`
PriorCache(pairs) ==
    UNION {CacheSet({}, CacheKey(q[1], q[2], ModelOf(q[2])),
                    PriorResult(q[1], q[2]), {cache_ttl}, 0) : q \in pairs}

\* the disk cache (settings.cache_dir) survives the process: what explain
\* can find there when the CodeExplainer is constructed
PriorCaches ==
    {PriorCache({}),
     PriorCache({<<"x = 1", "gemini">>, <<"print(1+2)", "ollama">>}),
     PriorCache({<<"print(1+2)", "gemini">>, <<"print(1+2)", "ollama">>})}

Init ==
    /\ api_key \in BOOLEAN
    /\ is_available_cache = "None"
    /\ use_cache \in BOOLEAN
    /\ cache \in (IF use_cache THEN PriorCaches ELSE {{}})
    /\ now = 0
    /\ ticks = 0
    /\ stack = [c \in {1} |-> <<>>]
    /\ obs = [c \in {1} |-> NoObs]
    /\ key_in = NoKeys
    /\ key_out = NoKeys
    /\ val_in = NoKeys
    /\ val_out = NoKeys
    /\ checks = <<>>
    /\ met_in = NoKeys
    /\ met_out = NoKeys

Next ==
    \/ \E c \in Callers, code \in Codes, provider_name \in ProviderArgs,
          auto_fallback \in BOOLEAN, stream_callback \in BOOLEAN,
          validate_input \in BOOLEAN :
           Call(c, code, provider_name, auto_fallback, stream_callback, validate_input)
    \/ \E c \in Callers, ans \in [ProviderNames -> StructuredAnswers], up \in BOOLEAN :
           Validate(c, ans, up)
    \/ \E c \in Callers, up \in BOOLEAN : Resolve(c, up)
    \/ \E c \in Callers : Probe(c)
    \/ \E c \in Callers, text \in ChunkTexts : Chunk(c, text)
    \/ \E c \in Callers, tokens \in TokenCounts, up \in BOOLEAN : StreamEnd(c, tokens, up)
    \/ \E c \in Callers, msg \in UpstreamErrors, up \in BOOLEAN : StreamFail(c, msg, up)
    \/ \E c \in Callers : Cancel(c)
    \/ \E d \in TickSteps : Tick(d)

Spec == Init /\ [][Next]_vars

-----------------------------------------------------------------------------
(* Specification of the fingerprint: _get_cache_key applied to two triples *)

\* code, provider and model texts for the fingerprint; "|" is the separator
\* the key is built with
KeyCodes == {"x", "x|gemini|m"}
KeyModels == {"m", "z", "m|ollama|z"}
KeyTriples == KeyCodes \X ProviderNames \X KeyModels

\* the keys of both triples are computed
ComputeKeys ==
    /\ key_in # NoKeys
    /\ key_out = NoKeys
    /\ key_out' = <<CacheKey(key_in[1][1], key_in[1][2], key_in[1][3]),
                    CacheKey(key_in[2][1], key_in[2][2], key_in[2][3])>>
    /\ UNCHANGED <<api_key, is_available_cache, use_cache, cache, now, ticks,
                   stack, obs, key_in, val_in, val_out,
                   checks, met_in, met_out>>

KeyInit ==
    /\ api_key = FALSE
    /\ is_available_cache = "None"
    /\ use_cache = FALSE
    /\ cache = {}
    /\ now = 0
    /\ ticks = 0
    /\ stack = <<>>
    /\ obs = <<>>
    /\ key_in \in KeyTriples \X KeyTriples
    /\ key_out = NoKeys
    /\ val_in = NoKeys
    /\ val_out = NoKeys
    /\ checks = <<>>
    /\ met_in = NoKeys
    /\ met_out = NoKeys

KeyNext == ComputeKeys

KeySpec == KeyInit /\ [][KeyNext]_vars

-----------------------------------------------------------------------------
(* Specification of the validator alone: _validate_input_code applied to a *)
(* code text, for every state of the providers and every answer they give  *)

\* _validate_input_code(val_in.code); `up` tells whether ollama.list()
\* succeeds if is_available() has to probe
RunValidator(up) ==
    /\ val_in # NoKeys
    /\ val_out = NoKeys
    /\ val_out' = <<ValidateInputCode(val_in.code, val_in.ans, up)>>
    /\ is_available_cache' = MemoAfterAll(ValidatorProbed(val_in.code), up)
    /\ UNCHANGED <<api_key, use_cache, cache, now, ticks, stack, obs,
                   key_in, key_out, val_in, checks, met_in, met_out>>

ValidatorInit ==
    /\ api_key \in BOOLEAN
    /\ is_available_cache \in {"None", "True", "False"}
    /\ use_cache = FALSE
    /\ cache = {}
    /\ now = 0
    /\ ticks = 0
    /\ stack = <<>>
    /\ obs = <<>>
    /\ key_in = NoKeys
    /\ key_out = NoKeys
    /\ val_in \in [code : ValidatorCodes, ans : [ProviderNames -> StructuredAnswers],
                    memo : {is_available_cache}]
    /\ val_out = NoKeys
    /\ checks = <<>>
    /\ met_in = NoKeys
    /\ met_out = NoKeys

ValidatorNext == \E up \in BOOLEAN : RunValidator(up)

ValidatorSpec == ValidatorInit /\ [][ValidatorNext]_vars

-----------------------------------------------------------------------------
(* Specification of two explain calls running concurrently on one cache,  *)
(* both for the same (code, provider, model)                              *)

\* the code both calls explain
SharedCode == "print(1+2)"

\* the fragments the backend sends in this specification
SharedChunkTexts == {" ", "Hi"}

ConcurrentInit ==
    /\ api_key = TRUE
    /\ is_available_cache = "None"
    /\ use_cache = TRUE
    /\ cache = {}
    /\ now = 0
    /\ ticks = 0
    /\ stack = [c \in {1, 2} |-> <<>>]
    /\ obs = [c \in {1, 2} |-> NoObs]
    /\ key_in = NoKeys
    /\ key_out = NoKeys
    /\ val_in = NoKeys
    /\ val_out = NoKeys
    /\ checks = <<>>
    /\ met_in = NoKeys
    /\ met_out = NoKeys

ConcurrentNext ==
    \/ \E c \in Callers : Call(c, SharedCode, None, FALSE, FALSE, FALSE)
    \/ \E c \in Callers, up \in BOOLEAN : Resolve(c, up)
    \/ \E c \in Callers : Probe(c)
    \/ \E c \in Callers, text \in SharedChunkTexts : Chunk(c, text)
    \/ \E c \in Callers, tokens \in TokenCounts, up \in BOOLEAN : StreamEnd(c, tokens, up)
    \/ \E c \in Callers, msg \in UpstreamErrors, up \in BOOLEAN : StreamFail(c, msg, up)
    \/ \E d \in TickSteps : Tick(d)

ConcurrentSpec == ConcurrentInit /\ [][ConcurrentNext]_vars

-----------------------------------------------------------------------------
(* Specification of OllamaProvider.is_available called by several threads *)
(* on one provider instance, a step per statement                         *)

\* the threads that call is_available
Threads == {1, 2, 3}

\* a thread outside is_available
NoCheck == [pc |-> "idle", got |-> "None", returned |-> "None"]

\* `if self._is_available_cache is not None: return self._is_available_cache`
CheckMemo(t) ==
    /\ checks[t].pc = "idle"
    /\ checks' = [checks EXCEPT ![t] =
           IF is_available_cache # "None"
           THEN [pc |-> "returned", got |-> "None", returned |-> is_available_cache]
           ELSE [pc |-> "probe", got |-> "None", returned |-> "None"]]
    /\ UNCHANGED <<api_key, is_available_cache, use_cache, cache, now, ticks,
                   stack, obs, key_in, key_out, val_in, val_out, met_in, met_out>>

\* `ollama.list()`: succeeds when the service answers (up), raises otherwise
ProbeUpstream(t, up) ==
    /\ checks[t].pc = "probe"
    /\ checks' = [checks EXCEPT ![t].pc = "store",
                                ![t].got = IF up THEN "True" ELSE "False"]
    /\ UNCHANGED <<api_key, is_available_cache, use_cache, cache, now, ticks,
                   stack, obs, key_in, key_out, val_in, val_out, met_in, met_out>>

\* `self._is_available_cache = True; return True` after the try, or
\* `self._is_available_cache = False; return False` in the except branch
StoreMemo(t) ==
    /\ checks[t].pc = "store"
    /\ is_available_cache' = checks[t].got
    /\ checks' = [checks EXCEPT ![t].pc = "returned", ![t].returned = checks[t].got]
    /\ UNCHANGED <<api_key, use_cache, cache, now, ticks,
                   stack, obs, key_in, key_out, val_in, val_out, met_in, met_out>>

\* the thread is ready to call is_available again
CheckReturn(t) ==
    /\ checks[t].pc = "returned"
    /\ checks' = [checks EXCEPT ![t] = NoCheck]
    /\ UNCHANGED <<api_key, is_available_cache, use_cache, cache, now, ticks,
                   stack, obs, key_in, key_out, val_in, val_out, met_in, met_out>>

MemoInit ==
    /\ api_key = FALSE
    /\ is_available_cache = "None"
    /\ use_cache = FALSE
    /\ cache = {}
    /\ now = 0
    /\ ticks = 0
    /\ stack = <<>>
    /\ obs = <<>>
    /\ key_in = NoKeys
    /\ key_out = NoKeys
    /\ val_in = NoKeys
    /\ val_out = NoKeys
    /\ checks = [t \in Threads |-> NoCheck]
    /\ met_in = NoKeys
    /\ met_out = NoKeys

MemoNext ==
    \/ \E t \in Threads : CheckMemo(t)
    \/ \E t \in Threads, up \in BOOLEAN : ProbeUpstream(t, up)
    \/ \E t \in Threads : StoreMemo(t)
    \/ \E t \in Threads : CheckReturn(t)

MemoSpec == MemoInit /\ [][MemoNext]_vars

-----------------------------------------------------------------------------
(* Specification of the derived metrics: the properties total_time and    *)
(* tokens_per_second applied to a PerformanceMetrics value                *)

\* Python's truth value of an Optional number: None and 0 are false
Truthy(x) == x # {} /\ x # {0}

\* PerformanceMetrics.total_time: the difference, or {} for None
TotalTime(m) ==
    IF Truthy(m.end_time)
    THEN {t - m.start_time : t \in m.end_time}
    ELSE {}

\* PerformanceMetrics.tokens_per_second: the quotient as the pair
\* <<total_tokens, generation_time>>, or {} for None
TokensPerSecond(m) ==
    IF Truthy(m.end_time) /\ Truthy(m.time_to_first_token) /\ Truthy(m.total_tokens)
    THEN {<<n, t - (m.start_time + d)>> :
             <<n, t, d>> \in {q \in m.total_tokens \X m.end_time \X m.time_to_first_token :
                                 q[2] - (m.start_time + q[3]) > 0}}
    ELSE {}

\* the values of the Optional fields the properties are applied to
MetricTimes == {{}, {0}, {1}, {3}}
MetricFirstTokens == {{}, {0}, {1}}
MetricTokens == {{}, {0}, {20}}

\* both properties of met_in are read
ReadDerived ==
    /\ met_in # NoKeys
    /\ met_out = NoKeys
    /\ met_out' = <<[total_time |-> TotalTime(met_in[1]),
                     tokens_per_second |-> TokensPerSecond(met_in[1])]>>
    /\ UNCHANGED <<api_key, is_available_cache, use_cache, cache, now, ticks,
                   stack, obs, key_in, key_out, val_in, val_out, checks, met_in>>

MetricsInit ==
    /\ api_key = FALSE
    /\ is_available_cache = "None"
    /\ use_cache = FALSE
    /\ cache = {}
    /\ now = 0
    /\ ticks = 0
    /\ stack = <<>>
    /\ obs = <<>>
    /\ key_in = NoKeys
    /\ key_out = NoKeys
    /\ val_in = NoKeys
    /\ val_out = NoKeys
    /\ checks = <<>>
    /\ met_in \in {<<[PerformanceMetrics(gemini_model, "gemini", s) EXCEPT
                         !.end_time = e, !.time_to_first_token = d, !.total_tokens = n]>> :
                      <<s, e, d, n>> \in {0, 1} \X MetricTimes \X MetricFirstTokens
                                              \X MetricTokens}
    /\ met_out = NoKeys

MetricsNext == ReadDerived

MetricsSpec == MetricsInit /\ [][MetricsNext]_vars

-----------------------------------------------------------------------------
(* Properties *)

\* the call of request c
CallOf(c) == CHOOSE f \in obs[c].call : TRUE

\* the result request c got
ResultOf(c) == CHOOSE r \in obs[c].result : TRUE

\* the texts the sink received from the frame at depth d
SinkAt(o, d) ==
    LET F[i \in 0..Len(o.sink)] ==
            IF i = 0 THEN <<>>
            ELSE IF o.sink[i].depth = d THEN Append(F[i - 1], o.sink[i].text)
            ELSE F[i - 1]
    IN  F[Len(o.sink)]

\* the registered provider other than p
OtherProvider(p) == CHOOSE q \in ProviderNames : q # p

\* whether is_available() of p is known to be true in this state
KnownAvailable(p) ==
    IF p = "gemini" THEN api_key ELSE is_available_cache = "True"

\* C1: a top-level explain call makes at most two generation attempts, at
\* most one per provider; the recursion is at most one retry deep, the retry
\* goes to the other provider with auto_fallback=False and
\* validate_input=False, and a failed first attempt with auto_fallback set
\* ends without a retry only if the other provider is not available.
C1_AtMostOneRetry ==
    \A c \in Callers :
        LET o == obs[c] IN
        /\ Len(o.gen) <= 2
        /\ \A i, j \in 1..Len(o.gen) : i # j => o.gen[i].provider # o.gen[j].provider
        /\ Len(o.retries) <= 1
        /\ Len(stack[c]) <= 2
        /\ (Len(stack[c]) = 2 => Len(o.retries) = 1 /\ stack[c][1].pc = "except")
        /\ \A i \in 1..Len(o.retries) :
              /\ CallOf(c).auto_fallback
              /\ Len(o.gen) >= 1
              /\ o.retries[i].provider_name = OtherProvider(o.gen[1].provider)
              /\ o.retries[i].auto_fallback = FALSE
              /\ o.retries[i].validate_input = FALSE
              /\ o.retries[i].code = CallOf(c).code
              /\ o.retries[i].stream_callback = CallOf(c).stream_callback
        /\ (o.done /\ o.via = "raise" /\ o.depth = 1 /\ Len(o.gen) = 1
                /\ CallOf(c).auto_fallback)
              => ~KnownAvailable(OtherProvider(o.gen[1].provider))

\* C1 witness: both attempts were made and failed, and the call has ended
C1_Witness ==
    \E c \in Callers :
        /\ obs[c].done /\ obs[c].via = "raise" /\ obs[c].depth = 2
        /\ Len(obs[c].gen) = 2 /\ Len(obs[c].retries) = 1

\* C2: when the attempt against provider A failed and the retry against the
\* other provider B produced the result, the result's metrics name B and
\* B's model.
C2_FallbackResultNamesB ==
    \A c \in Callers :
        (obs[c].done /\ obs[c].result # {} /\ obs[c].depth = 2 /\ Len(obs[c].gen) >= 1)
        => LET B == OtherProvider(obs[c].gen[1].provider) IN
           /\ ResultOf(c).metrics.model_provider = B
           /\ ResultOf(c).metrics.model = ModelOf(B)
           /\ (obs[c].via = "generate" =>
                  /\ Len(obs[c].gen) = 2
                  /\ obs[c].gen[2] = [depth |-> 2, provider |-> B])

\* C2 witness: gemini failed, ollama generated the result
C2_Witness ==
    \E c \in Callers :
        /\ obs[c].done /\ obs[c].via = "generate" /\ obs[c].depth = 2
        /\ obs[c].gen[1].provider = "gemini"
        /\ ResultOf(c).metrics.model_provider = "ollama"

\* C3: when the validator returns invalid, explain raises ValueError
\* "Input validation failed: <reason>" and has resolved no provider, not
\* touched the cache, generated nothing and retried nothing.
C3_ValidationFailureStopsAll ==
    \A c \in Callers :
        \A v \in obs[c].validation :
            ~v.is_valid =>
                /\ stack[c] = <<>>
                /\ obs[c].done
                /\ obs[c].result = {}
                /\ obs[c].error =
                       {Exception("ValueError", "Input validation failed: " \o v.reason)}
                /\ obs[c].resolved = <<>>
                /\ obs[c].probes = <<>>
                /\ obs[c].writes = <<>>
                /\ obs[c].gen = <<>>
                /\ obs[c].retries = <<>>
                /\ obs[c].sink = <<>>

\* C3 witness: a provider's classification rejected code that passes the
\* size checks
C3_Witness ==
    \E c \in Callers :
        /\ obs[c].done
        /\ obs[c].structured # <<>>
        /\ \E v \in obs[c].validation : ~v.is_valid
        /\ CallOf(c).validate_input

\* the entries of cache ch stored under key k
EntriesAt(ch, k) == {x \in ch : x.key = k}

\* C4: the cache changes only when a generation attempt has returned its
\* complete text: the change is the one entry of that attempt's key, holding
\* the complete (stripped) text.  A step in which an attempt fails or is
\* cancelled changes no cache entry and forwards nothing, and an attempt that
\* is over forwards nothing any more.
C4_NoPartialWrite ==
    [][ /\ cache' # cache =>
             \E c \in Callers :
                 /\ Running(c, "stream")
                 /\ obs'[c].done /\ obs'[c].via = "generate"
                 /\ \E r \in obs'[c].result :
                       /\ r.original_code = Top(c).code
                       /\ r.explanation = Strip(Top(c).explanation)
                       /\ cache' = {x \in cache : x.key # Top(c).cache_key} \cup
                              {[key |-> Top(c).cache_key, value |-> r,
                                expire_time |-> {now + cache_ttl}]}
        /\ \A c \in Callers :
             /\ (Running(c, "stream")
                    /\ (Len(stack'[c]) > Len(stack[c])
                           \/ (obs'[c].done /\ obs'[c].via # "generate")))
                  => (cache' = cache /\ obs'[c].sink = obs[c].sink)
             /\ \A d \in 1..MaxDepth :
                    (obs[c].done \/ Len(stack[c]) > d)
                        => SinkAt(obs'[c], d) = SinkAt(obs[c], d)
      ]_vars

\* C4 witness: the call was interrupted after a fragment had been forwarded,
\* and the cache is as it was before the call
C4_Witness ==
    \E c \in Callers :
        /\ obs[c].done /\ obs[c].via = "interrupt"
        /\ Len(obs[c].sink) >= 1
        /\ Len(obs[c].gen) >= 1
        /\ use_cache /\ cache \in PriorCaches

\* C5: when caching is enabled and the cache holds an unexpired entry under
\* the key of (code, resolved provider, its model) at the probe, explain
\* returns that entry at once: no generation call is made by the call, and
\* the cache is left as it is.
C5_HitSkipsGeneration ==
    [][ \A c \in Callers :
          (/\ Running(c, "probe")
           /\ use_cache
           /\ stack'[c] # stack[c]
           /\ obs'[c].via # "interrupt")
          => \A e \in cache :
                (/\ e.key = Top(c).code \o "|" \o Top(c).provider \o "|"
                               \o ModelOf(Top(c).provider)
                 /\ \A ex \in e.expire_time : now < ex)
                => /\ obs'[c].done /\ obs'[c].via = "hit"
                   /\ stack'[c] = <<>>
                   /\ \E r \in obs'[c].result :
                         /\ r.original_code = e.value.original_code
                         /\ r.explanation = e.value.explanation
                         /\ r.timestamp = e.value.timestamp
                         /\ r.metrics.cache_hit
                   /\ obs'[c].gen = obs[c].gen
                   /\ \A i \in 1..Len(obs'[c].gen) : obs'[c].gen[i].depth # Len(stack[c])
                   /\ cache' = cache
      ]_vars

\* C5 witness: the first probe of a call hit, nothing was generated
C5_Witness ==
    \E c \in Callers :
        /\ obs[c].done /\ obs[c].via = "hit" /\ obs[c].depth = 1
        /\ obs[c].gen = <<>>
        /\ ResultOf(c).explanation = "Hello"

\* C6: a call with validate_input=True that returns a cached result has made
\* no generate_structured call on any provider.
C6_NoValidatorOnHit ==
    \A c \in Callers :
        (obs[c].done /\ obs[c].via = "hit" /\ obs[c].depth = 1
            /\ CallOf(c).validate_input)
        => obs[c].structured = <<>>

\* C7: on a cache hit the sink, if one was supplied, is called exactly once,
\* with the full cached explanation; without a sink nothing is called.
C7_HitCallsSinkOnce ==
    \A c \in Callers :
        (obs[c].done /\ obs[c].via = "hit")
        => LET pr == obs[c].probes[Len(obs[c].probes)] IN
           /\ pr.depth = obs[c].depth
           /\ pr.stored # {}
           /\ \A e \in pr.stored :
                 SinkAt(obs[c], obs[c].depth) =
                     IF CallOf(c).stream_callback THEN <<e.value.explanation>> ELSE <<>>

\* C7 witness: a hit with a sink, which got the cached text in one call
C7_Witness ==
    \E c \in Callers :
        /\ obs[c].done /\ obs[c].via = "hit"
        /\ CallOf(c).stream_callback
        /\ obs[c].sink = <<[depth |-> 1, text |-> "Hello"]>>

\* the entry explain saves for result r at the time the result was finished
SavedEntry(r) ==
    [key |-> r.original_code \o "|" \o r.metrics.model_provider \o "|" \o r.metrics.model,
     value |-> r,
     expire_time |-> {t + cache_ttl : t \in r.metrics.end_time}]

\* C8, the store and the probe taken separately: with caching enabled, a call that missed and generated successfully
\* leaves its result under the key of (code, provider, model) with expiry
\* write time + TTL; and a probe that finds an entry under its key before the
\* entry's expiry is a hit that returns the entry's code (the requested
\* code) and explanation with cache_hit = True.
C8_StoreThenHit ==
    \A c \in Callers :
        /\ (obs[c].done /\ obs[c].via = "generate" /\ use_cache)
             => /\ obs[c].probes[Len(obs[c].probes)].cached = {}
                /\ EntriesAt(cache, SavedEntry(ResultOf(c)).key) = {SavedEntry(ResultOf(c))}
                /\ ResultOf(c).original_code = CallOf(c).code
                /\ ~ResultOf(c).metrics.cache_hit
        /\ \A i \in 1..Len(obs[c].probes) :
              \A e \in obs[c].probes[i].stored :
                 (\A ex \in e.expire_time : obs[c].probes[i].at < ex)
                 => /\ obs[c].done /\ obs[c].via = "hit"
                    /\ obs[c].depth = obs[c].probes[i].depth
                    /\ ResultOf(c).original_code = CallOf(c).code
                    /\ ResultOf(c).original_code = e.value.original_code
                    /\ ResultOf(c).explanation = e.value.explanation
                    /\ ResultOf(c).metrics.cache_hit

\* C8 witness: a miss, a successful generation, and the saved entry
C8_Witness ==
    \E c \in Callers :
        /\ obs[c].done /\ obs[c].via = "generate" /\ use_cache
        /\ Len(obs[c].writes) = 1
        /\ ResultOf(c).explanation = "Hi"
        /\ \E e \in cache : e.value = ResultOf(c) /\ e.expire_time = {now + cache_ttl}

\* C8 as stated, for the whole call: a call for the default provider, which
\* is available, with code of accepted size, made while the cache holds an unexpired entry under the key
\* of (code, "gemini", gemini_model) and that is not interrupted, is a cache
\* hit returning the entry's code and explanation with cache_hit = True.
C8_IdenticalCallHits ==
    \A c \in Callers :
        (/\ obs[c].done /\ obs[c].via # "interrupt"
         /\ use_cache /\ api_key
         /\ CallOf(c).provider_name = None
         /\ SizeChecks[CallOf(c).code] = {}
         /\ \E e \in cache :
               /\ e.key = CallOf(c).code \o "|" \o default_provider \o "|" \o gemini_model
               /\ \A ex \in e.expire_time : now < ex)
        => /\ obs[c].via = "hit"
           /\ obs[c].result # {}
           /\ \A e \in EntriesAt(cache, CallOf(c).code \o "|" \o default_provider
                                            \o "|" \o gemini_model) :
                 /\ ResultOf(c).original_code = e.value.original_code
                 /\ ResultOf(c).explanation = e.value.explanation
                 /\ ResultOf(c).metrics.cache_hit

\* C9: a probe that finds only an expired entry under its key is a miss: the
\* provider is invoked, and when the generation succeeds the entry is
\* replaced by the new result with expiry write time + TTL.
C9_ExpiredEntryIsAbsent ==
    \A c \in Callers :
        \A i \in 1..Len(obs[c].probes) :
            LET pr == obs[c].probes[i] IN
            (pr.stored # {} /\ \A e \in pr.stored : \E ex \in e.expire_time : ex <= pr.at)
            => /\ ~(obs[c].via = "hit" /\ obs[c].depth = pr.depth)
               /\ \E j \in 1..Len(obs[c].gen) : obs[c].gen[j].depth = pr.depth
               /\ (obs[c].done /\ obs[c].via = "generate" /\ obs[c].depth = pr.depth)
                    => /\ EntriesAt(cache, pr.key) = {SavedEntry(ResultOf(c))}
                       /\ EntriesAt(cache, pr.key) \cap pr.stored = {}
                       /\ \A e \in EntriesAt(cache, pr.key) :
                             e.expire_time = {t + cache_ttl : t \in ResultOf(c).metrics.end_time}
                                 /\ \A ex \in e.expire_time : ex > now - cache_ttl

\* C9 witness: the stored entry had expired, the provider generated again and
\* the entry was replaced
C9_Witness ==
    \E c \in Callers :
        /\ obs[c].done /\ obs[c].via = "generate"
        /\ \E i \in 1..Len(obs[c].probes) :
              /\ obs[c].probes[i].stored # {}
              /\ obs[c].probes[i].at >= cache_ttl
              /\ EntriesAt(cache, obs[c].probes[i].key) = {SavedEntry(ResultOf(c))}

\* C10: two distinct (code, provider, model) triples never have the same
\* cache key (the digest taken to be injective).
C10_KeyInjective ==
    key_out # NoKeys => (key_out[1] = key_out[2] => key_in[1] = key_in[2])

\* the fragments of a stream that carry text
NonEmpty(texts) == SelectSeq(texts, LAMBDA t : t # "")

\* the texts joined in order
Concat(texts) ==
    LET F[i \in 0..Len(texts)] == IF i = 0 THEN "" ELSE F[i - 1] \o texts[i]
    IN  F[Len(texts)]

\* C11: during a generation attempt the sink, if one was supplied, has
\* received exactly the non-empty fragments the backend has yielded so far,
\* in the backend's order - in every state, hence before the next fragment
\* is taken from the stream - and so it has when the attempt has returned;
\* the fragments of an earlier attempt precede those of the retry.
C11_SinkFollowsBackend ==
    \A c \in Callers :
        /\ Running(c, "stream") =>
              SinkAt(obs[c], Depth(c)) =
                  IF Top(c).stream_callback THEN NonEmpty(Top(c).emitted) ELSE <<>>
        /\ (obs[c].done /\ obs[c].via = "generate") =>
              SinkAt(obs[c], obs[c].depth) =
                  IF CallOf(c).stream_callback THEN NonEmpty(obs[c].emitted) ELSE <<>>
        /\ \A i, j \in 1..Len(obs[c].sink) :
              i < j => obs[c].sink[i].depth <= obs[c].sink[j].depth

\* C11 witness: the backend yielded " " and then "Hi"; the sink got both, in
\* that order
C11_Witness ==
    \E c \in Callers :
        /\ obs[c].done /\ obs[c].via = "generate"
        /\ obs[c].emitted = <<" ", "Hi">>
        /\ obs[c].sink = <<[depth |-> 1, text |-> " "], [depth |-> 1, text |-> "Hi"]>>

\* C12 as stated: the explanation of a generated result equals the
\* concatenation of the fragments the backend emitted.
C12_ExplanationIsConcatenation ==
    \A c \in Callers :
        (obs[c].done /\ obs[c].via = "generate")
        => ResultOf(c).explanation = Concat(NonEmpty(obs[c].emitted))

\* C12 amended: the explanation of a generated result, returned and stored
\* in the cache, equals the concatenation in order of the fragments the
\* backend emitted (those the sink received, when there is one) with leading
\* and trailing whitespace removed.
C12_ExplanationIsStrippedConcatenation ==
    \A c \in Callers :
        (obs[c].done /\ obs[c].via = "generate")
        => /\ ResultOf(c).explanation = Strip(Concat(obs[c].emitted))
           /\ CallOf(c).stream_callback =>
                 ResultOf(c).explanation = Strip(Concat(SinkAt(obs[c], obs[c].depth)))
           /\ \A i \in 1..Len(obs[c].writes) :
                 \A e \in EntriesAt(cache, obs[c].writes[i].key) :
                     e.value.explanation = Strip(Concat(obs[c].emitted))

\* C12 witness: the fragments "Hi" and " " gave the explanation "Hi", which
\* is in the cache
C12_Witness ==
    \E c \in Callers :
        /\ obs[c].done /\ obs[c].via = "generate"
        /\ obs[c].emitted = <<"Hi", " ">>
        /\ ResultOf(c).explanation = "Hi"
        /\ \E e \in cache : e.value = ResultOf(c)

\* the ProviderError a backend's _invoke_model raises for an empty stream
EmptyResponseError(provider) ==
    Exception("ProviderError",
        (IF provider = "gemini" THEN "Gemini API error: " ELSE "Ollama error: ")
            \o (IF provider = "gemini" THEN "Gemini" ELSE "Ollama")
            \o " returned empty response")

\* C13: a stream that ends without any text never returns: the attempt
\* fails with the ProviderError "... returned empty response", explain
\* returns and caches no result of that attempt, and the failure is handled
\* as any provider failure: one retry against the other provider when
\* auto_fallback is set and that provider is available, the error raised to
\* the caller otherwise.
C13_EmptyStreamFails ==
    \A c \in Callers :
        /\ (obs[c].done /\ obs[c].via = "generate") => Concat(obs[c].emitted) # ""
        /\ \A i \in 1..Len(obs[c].failures) :
              LET fl == obs[c].failures[i] IN
              /\ fl.raw = EmptyResponse(fl.provider) <=> (fl.raw \notin UpstreamErrors)
              /\ fl.raw = EmptyResponse(fl.provider) =>
                    /\ ~fl.had_text
                    /\ fl.error = EmptyResponseError(fl.provider)
                    /\ ~(obs[c].done /\ obs[c].result # {} /\ obs[c].depth = fl.depth)
                    /\ \A j \in 1..Len(obs[c].writes) : obs[c].writes[j].depth # fl.depth
                    /\ (fl.depth = 1 /\ CallOf(c).auto_fallback) =>
                          \/ /\ Len(obs[c].retries) = 1
                             /\ obs[c].retries[1].provider_name = OtherProvider(fl.provider)
                          \/ /\ obs[c].done /\ obs[c].via = "raise" /\ obs[c].depth = 1
                             /\ obs[c].error = {fl.error}
                             /\ ~KnownAvailable(OtherProvider(fl.provider))
                    /\ (fl.depth = 1 /\ ~CallOf(c).auto_fallback) =>
                          /\ obs[c].done /\ obs[c].via = "raise"
                          /\ obs[c].error = {fl.error}
                          /\ obs[c].retries = <<>>

\* C13 witness: gemini's stream ended after an empty chunk, the retry went
\* to ollama and produced the result
C13_Witness ==
    \E c \in Callers :
        /\ obs[c].done /\ obs[c].via = "generate" /\ obs[c].depth = 2
        /\ Len(obs[c].failures) = 1
        /\ obs[c].failures[1].raw = EmptyResponse("gemini")
        /\ obs[c].failures[1].error = EmptyResponseError("gemini")

\* C16: when a generation attempt failed and the call ends with an
\* exception, that exception is the one of the first failed attempt.
C16_OriginalExceptionPropagates ==
    \A c \in Callers :
        (obs[c].done /\ obs[c].via = "raise" /\ obs[c].failures # <<>>)
        => obs[c].error = {obs[c].failures[1].error}

\* C17: every failed generation attempt has its failure message in
\* metrics.error and its end_time set, and that is so before the retry
\* starts (the outer frame holds the recorded metrics while the retry runs)
\* and before the exception reaches the caller.
C17_FailureRecordedInMetrics ==
    \A c \in Callers :
        /\ \A i \in 1..Len(obs[c].failures) :
              LET fl == obs[c].failures[i] IN
              /\ fl.metrics.error = {fl.error.msg}
              /\ fl.metrics.end_time # {}
              /\ \A t \in fl.metrics.end_time : fl.metrics.start_time <= t /\ t <= now
              /\ fl.metrics.model_provider = fl.provider
        /\ Len(obs[c].retries) <= Len(obs[c].failures)
        /\ Len(stack[c]) = 2 =>
              /\ obs[c].failures # <<>>
              /\ stack[c][1].metrics = {obs[c].failures[1].metrics}
              /\ \A m \in stack[c][2].metrics :
                    \A t \in obs[c].failures[1].metrics.end_time : t <= m.start_time
        /\ (obs[c].done /\ obs[c].via = "raise" /\ obs[c].gen # <<>>) =>
              /\ obs[c].failures # <<>>
              /\ obs[c].failures[Len(obs[c].failures)].metrics.error
                     = {e.msg : e \in obs[c].error}

\* C17 witness: gemini's attempt failed with the rate limit error, which is
\* in its metrics, and the retry against ollama has started
C17_Witness ==
    \E c \in Callers :
        /\ Len(stack[c]) = 2
        /\ stack[c][2].pc = "stream"
        /\ \E m \in stack[c][1].metrics :
              /\ m.error = {"Gemini rate limit exceeded: 429 Quota exceeded"}
              /\ m.end_time # {}

\* `provider_name or self.default_provider`: the name request c asks for
RequestedName(c) ==
    IF CallOf(c).provider_name # None THEN CallOf(c).provider_name ELSE default_provider

\* the provider that stands in for `name`: the other registered one, and
\* gemini for a name that is not registered
Substitute(name) == IF name \in ProviderNames THEN OtherProvider(name) ELSE "gemini"

\* C14: with auto_fallback=True, when the requested (or default) name does
\* not resolve, explain goes on with the other registered provider if that
\* one is available, and the cache key and the generation use its name and
\* model; if it is not available explain raises ValueError "No ML providers
\* are available" and has neither touched the cache nor generated anything.
C14_SubstituteOnResolutionFailure ==
    \A c \in Callers :
        (obs[c].resolved # <<>> /\ CallOf(c).auto_fallback)
        => LET r == obs[c].resolved[1]
               req == RequestedName(c)
               sub == Substitute(req)
               unresolvable == req \notin ProviderNames \/ ~KnownAvailable(req)
           IN  /\ r.depth = 1
               /\ r.provider \in {{}, {req}, {sub}}
               /\ r.provider = {req} => ~unresolvable
               /\ (r.provider = {sub} /\ sub # req) =>
                     /\ unresolvable
                     /\ KnownAvailable(sub)
                     /\ \A i \in 1..Len(obs[c].probes) :
                           obs[c].probes[i].depth = 1 =>
                               obs[c].probes[i].key =
                                   CallOf(c).code \o "|" \o sub \o "|" \o ModelOf(sub)
                     /\ \A i \in 1..Len(obs[c].gen) :
                           obs[c].gen[i].depth = 1 => obs[c].gen[i].provider = sub
                     /\ (obs[c].done /\ obs[c].result # {} /\ obs[c].depth = 1) =>
                           /\ ResultOf(c).metrics.model_provider = sub
                           /\ ResultOf(c).metrics.model = ModelOf(sub)
               /\ r.provider = {} =>
                     /\ unresolvable
                     /\ ~KnownAvailable(sub)
                     /\ obs[c].done /\ obs[c].via = "raise" /\ obs[c].depth = 1
                     /\ obs[c].error =
                            {Exception("ValueError", "No ML providers are available")}
                     /\ obs[c].probes = <<>> /\ obs[c].writes = <<>>
                     /\ obs[c].gen = <<>> /\ obs[c].sink = <<>>
                     /\ obs[c].retries = <<>>

\* C14 witness: ollama was asked for and is down; gemini generated the
\* result, which is stored under gemini's key
C14_Witness ==
    \E c \in Callers :
        /\ obs[c].done /\ obs[c].via = "generate"
        /\ CallOf(c).provider_name = "ollama" /\ CallOf(c).auto_fallback
        /\ obs[c].resolved = <<[depth |-> 1, provider |-> {"gemini"}]>>
        /\ ResultOf(c).metrics.model_provider = "gemini"
        /\ Len(obs[c].writes) = 1

\* C15: with auto_fallback=False, explain raises ValueError "Unknown
\* provider: <name>" when the requested (or default) name is not registered
\* and ValueError "Provider <name> is not available ..." when the named
\* provider's is_available() is false; no other provider is substituted,
\* the cache is not touched and nothing is generated.
C15_ResolutionErrorsSurface ==
    \A c \in Callers :
        (obs[c].resolved # <<>> /\ ~CallOf(c).auto_fallback)
        => LET r == obs[c].resolved[1]
               req == RequestedName(c)
           IN  /\ r.provider \in {{}, {req}}
               /\ r.provider = {req} => (req \in ProviderNames /\ KnownAvailable(req))
               /\ r.provider = {} =>
                     /\ obs[c].done /\ obs[c].via = "raise" /\ obs[c].depth = 1
                     /\ obs[c].error =
                            {IF req \notin ProviderNames
                             THEN Exception("ValueError", "Unknown provider: " \o req)
                             ELSE Exception("ValueError", "Provider " \o req
                                      \o " is not available (missing API key)")}
                     /\ req \in ProviderNames => ~KnownAvailable(req)
                     /\ Len(obs[c].resolved) = 1
                     /\ obs[c].probes = <<>> /\ obs[c].writes = <<>>
                     /\ obs[c].gen = <<>> /\ obs[c].sink = <<>>
                     /\ obs[c].retries = <<>>

\* C15 witness: ollama was asked for without fallback and is down
C15_Witness ==
    \E c \in Callers :
        /\ obs[c].done /\ obs[c].via = "raise"
        /\ CallOf(c).provider_name = "ollama" /\ ~CallOf(c).auto_fallback
        /\ obs[c].error = {Exception("ValueError",
               "Provider ollama is not available (missing API key)")}
        /\ api_key

\* the code text is outside the size thresholds
OutsideSize(code) ==
    Len(Strip(code)) < min_code_length \/ Len(code) > max_code_length

\* C18: for code whose trimmed length is below the minimum or whose raw
\* length is above the maximum, the validator returns is_valid=False with
\* confidence 1.0 and has contacted no provider: no generate_structured
\* call, and not even an availability probe.
C18_SizeChecksShortCircuit ==
    (val_out # NoKeys /\ OutsideSize(val_in.code))
    => /\ val_out[1].result.is_valid = FALSE
       /\ val_out[1].result.confidence = "1.0"
       /\ val_out[1].asked = <<>>
       /\ is_available_cache = val_in.memo

\* C18 witness: code of 11 characters of which 5 remain after trimming was
\* rejected while both providers were available
C18_Witness ==
    /\ val_out # NoKeys
    /\ val_in.code = "   x = 1   "
    /\ api_key /\ is_available_cache = "True"
    /\ ~val_in.ans["ollama"].raised
    /\ val_out[1].result.is_valid = FALSE
    /\ val_out[1].asked = <<>>

\* C19: for code that passes the size checks the validator asks ollama
\* first and gemini second, leaving out a provider that is not available;
\* it asks gemini only if ollama was not available or raised, asks each
\* provider at most once, and returns the first answer it gets as it is.
C19_ValidatorPriorityOrder ==
    (val_out # NoKeys /\ ~OutsideSize(val_in.code))
    => LET asked == val_out[1].asked
           availO == is_available_cache = "True"
           availG == api_key
           ans == val_in.ans
       IN  /\ is_available_cache # "None"
           /\ asked \in {<<>>, <<"ollama">>, <<"gemini">>, <<"ollama", "gemini">>}
           /\ (\E i \in 1..Len(asked) : asked[i] = "ollama") <=> availO
           /\ (\E i \in 1..Len(asked) : asked[i] = "gemini")
                 <=> (availG /\ (~availO \/ ans["ollama"].raised))
           /\ \A i \in 1..Len(asked) :
                 /\ i < Len(asked) => ans[asked[i]].raised
                 /\ ~ans[asked[i]].raised =>
                       /\ i = Len(asked)
                       /\ val_out[1].result.is_valid = ans[asked[i]].is_valid
                       /\ val_out[1].result.reason = ans[asked[i]].text

\* C19 witness: ollama raised, gemini was asked next and its rejection was
\* returned
C19_Witness ==
    /\ val_out # NoKeys
    /\ val_in.code = "print(1+2)"
    /\ val_out[1].asked = <<"ollama", "gemini">>
    /\ val_in.ans["ollama"].raised
    /\ val_out[1].result = ValidationResult(FALSE, "not code", "0.8")

\* C20: when every provider the validator asked raised (and when none could
\* be asked), the validator returns is_valid=True with confidence 0.5 and a
\* reason that contains every provider's error message, and explain goes
\* on; an answer that was obtained is never replaced by this default.  No
\* other provider failure is swallowed: a failed generation attempt yields
\* no result of its own and ends in the retry or in the exception raised.
C20_ValidatorFailsOpen ==
    \A c \in Callers :
        /\ \A v \in obs[c].validation :
              SizeChecks[CallOf(c).code] = {} =>
                 LET asked == obs[c].structured
                     answers == obs[c].answers
                     allRaised == \A i \in 1..Len(answers) : answers[i].raised
                 IN  /\ Len(answers) = Len(asked)
                     /\ allRaised =>
                           /\ v.is_valid = TRUE
                           /\ v.confidence = "0.5"
                           /\ \A i \in 1..Len(asked) :
                                 Contains(v.reason, asked[i] \o ": "
                                     \o StructuredError(asked[i], answers[i].text))
                           /\ ~(obs[c].done /\ obs[c].via = "raise" /\ obs[c].resolved = <<>>)
                     /\ ~allRaised =>
                           /\ v.confidence # "0.5"
                           /\ v.is_valid = answers[Len(answers)].is_valid
        /\ \A i \in 1..Len(obs[c].failures) :
              LET fl == obs[c].failures[i] IN
              /\ ~(obs[c].done /\ obs[c].result # {} /\ obs[c].depth = fl.depth)
              /\ \/ fl.depth = 1 /\ Len(obs[c].retries) = 1
                 \/ obs[c].done /\ obs[c].via = "raise" /\ obs[c].error = {fl.error}

\* C20 witness: ollama and gemini were asked and both raised; the code was
\* let through and explained
C20_Witness ==
    \E c \in Callers :
        /\ obs[c].done /\ obs[c].via = "generate"
        /\ obs[c].structured = <<"ollama", "gemini">>
        /\ \A i \in 1..2 : obs[c].answers[i].raised
        /\ \E v \in obs[c].validation :
              /\ v.is_valid /\ v.confidence = "0.5"
              /\ v.reason = "Validation check skipped due to errors: "
                     \o "ollama: Ollama structured generation error: empty structured response; "
                     \o "gemini: Gemini structured generation error: empty structured response"

\* C21: the result returned on a cache hit equals the stored value in every
\* field (code, explanation, provider, model, first-token time, token count,
\* error, creation timestamp) except metrics.start_time, metrics.end_time
\* and metrics.cache_hit; on the hit cache_hit is true, end_time is set and
\* start_time <= end_time; the stored value itself is left as it was.
C21_HitEqualsStoredValue ==
    \A c \in Callers :
        (obs[c].done /\ obs[c].via = "hit")
        => LET pr == obs[c].probes[Len(obs[c].probes)]
               r == ResultOf(c)
           IN  /\ pr.cached # {}
               /\ \A v \in pr.cached :
                     /\ r = [v EXCEPT !.metrics.start_time = r.metrics.start_time,
                                      !.metrics.end_time = r.metrics.end_time,
                                      !.metrics.cache_hit = r.metrics.cache_hit]
                     /\ \E e \in cache : e.key = pr.key /\ e.value = v
               /\ r.metrics.cache_hit
               /\ r.metrics.end_time # {}
               /\ \A t \in r.metrics.end_time : r.metrics.start_time <= t

\* C21 witness: a hit at time 1 on a value stored at time 0 returned the
\* stored first-token time and token count with a rewritten window.
C21_Witness ==
    \E c \in Callers :
        /\ obs[c].done /\ obs[c].via = "hit"
        /\ ResultOf(c).metrics.start_time = 1
        /\ ResultOf(c).metrics.end_time = {1}
        /\ ResultOf(c).metrics.time_to_first_token = {1}
        /\ ResultOf(c).metrics.total_tokens = {20}
        /\ ResultOf(c).timestamp = 0
        /\ \E e \in cache : e.value.metrics.start_time = -1 /\ ~e.value.metrics.cache_hit

\* the cache holds at most one entry per key, and every entry is the complete
\* result of one call that generated successfully
OneCompleteResultPerKey(ch, o) ==
    \A e \in ch :
        /\ EntriesAt(ch, e.key) = {e}
        /\ \E c \in DOMAIN o :
              /\ o[c].done /\ o[c].via = "generate"
              /\ \E r \in o[c].result : e = SavedEntry(r)

\* C22: two explain calls run concurrently for the same (code, provider,
\* model) with caching enabled. Every step in which one of them completes
\* its generation leaves that call's complete result as the entry of the key
\* (so after both have completed the entry is the result of the call that
\* wrote last), no other step changes the cache, and at every moment the
\* entry is absent or the complete result of exactly one call.
C22_LastWriterWins ==
    [][/\ \A c \in Callers :
            (~obs[c].done /\ obs'[c].done /\ obs'[c].via = "generate")
            => \E r \in obs'[c].result :
                  /\ EntriesAt(cache', SavedEntry(r).key) = {SavedEntry(r)}
                  /\ cache' \ {SavedEntry(r)} \subseteq cache
       /\ (\A c \in Callers : ~(~obs[c].done /\ obs'[c].done /\ obs'[c].via = "generate"))
            => cache' = cache
       /\ OneCompleteResultPerKey(cache, obs)
       /\ OneCompleteResultPerKey(cache', obs')]_vars

\* C22 witness: both calls missed and both invoked the provider; the first
\* completed at time 0, the second at time 1 with another text, and the
\* entry is the second call's result.
C22_Witness ==
    /\ Callers = {1, 2}
    /\ \A c \in Callers :
          /\ obs[c].done /\ obs[c].via = "generate"
          /\ Len(obs[c].probes) = 1 /\ obs[c].probes[1].cached = {}
          /\ Len(obs[c].gen) = 1
    /\ ResultOf(1).metrics.end_time = {0}
    /\ ResultOf(2).metrics.end_time = {1}
    /\ ResultOf(1).explanation # ResultOf(2).explanation
    /\ cache = {SavedEntry(ResultOf(2))}

\* C23: under concurrent is_available calls on one OllamaProvider the memo
\* moves from unknown to a known value and, once known, never changes to a
\* different value, whatever the upstream service does afterwards.
C23_MemoNeverChangesOnceKnown ==
    [][is_available_cache # "None" => is_available_cache' = is_available_cache]_vars

\* C24: for every PerformanceMetrics value, tokens_per_second is
\* total_tokens / (end_time - (start_time + time_to_first_token)) whenever
\* end_time, time_to_first_token (and total_tokens) are set and the
\* denominator is positive, and undefined otherwise; total_time is
\* end_time - start_time whenever end_time is set and undefined only when it
\* is unset; set values equal to zero count as set.
C24_DerivedMetrics ==
    met_out # NoKeys
    => LET m == met_in[1] IN
       /\ met_out[1].total_time = {t - m.start_time : t \in m.end_time}
       /\ met_out[1].tokens_per_second =
              {<<n, t - (m.start_time + d)>> :
                  <<n, t, d>> \in {q \in m.total_tokens \X m.end_time \X m.time_to_first_token :
                                      q[2] - (m.start_time + q[3]) > 0}}

\* the kind the table of C25 gives an upstream failure whose text is msg
TableKind(msg) ==
    LET error_msg == Lower(msg) IN
    IF Contains(error_msg, "quota") \/ Contains(error_msg, "rate limit")
           \/ Contains(error_msg, "429")
    THEN "RateLimitError"
    ELSE IF Contains(error_msg, "timeout") \/ Contains(error_msg, "timed out")
    THEN "APITimeoutError"
    ELSE IF Contains(error_msg, "not found") \/ Contains(error_msg, "404")
           \/ Contains(error_msg, "invalid model")
    THEN "ModelUnavailableError"
    ELSE "ProviderError"

\* TableKind of every failure text of the specification
TableKinds ==
    [msg \in UpstreamErrors \cup {EmptyResponse(name) : name \in ProviderNames}
        |-> TableKind(msg)]

\* C25: for each backend, the exception a generation raises for an upstream
\* failure has the kind of the table: quota / rate limit / 429 gives
\* RateLimitError, timeout / timed out gives APITimeoutError, not found /
\* 404 / invalid model gives ModelUnavailableError, anything else the
\* generic ProviderError.
C25_ClassificationTable ==
    \A c \in Callers :
        \A i \in 1..Len(obs[c].failures) :
            obs[c].failures[i].error.type = TableKinds[obs[c].failures[i].raw]

\* C26: every entry stored under the key of (code, p, m) holds a result with
\* original_code = code, model_provider = p, model = m, error unset,
\* end_time set and cache_hit false; and a successful fallback leaves its
\* result under the fallback provider's key and the entries under the failed
\* provider's key as they were.
C26_EntriesMatchTheirKey ==
    /\ \A e \in cache :
          /\ e.value.metrics.error = {}
          /\ e.value.metrics.end_time # {}
          /\ ~e.value.metrics.cache_hit
          /\ \E code \in Codes, p \in ProviderNames : e.key = CacheKey(code, p, ModelOf(p))
          /\ \A code \in Codes, p \in ProviderNames :
                e.key = CacheKey(code, p, ModelOf(p))
                => /\ e.value.original_code = code
                   /\ e.value.metrics.model_provider = p
                   /\ e.value.metrics.model = ModelOf(p)
    /\ \A c \in Callers :
          (obs[c].done /\ obs[c].via = "generate" /\ obs[c].depth = 2 /\ use_cache)
          => LET a == obs[c].failures[1].provider
                 b == ResultOf(c).metrics.model_provider
             IN  /\ a # b
                 /\ EntriesAt(cache, CacheKey(CallOf(c).code, b, ModelOf(b)))
                        = {SavedEntry(ResultOf(c))}
                 /\ obs[c].probes[1].key = CacheKey(CallOf(c).code, a, ModelOf(a))
                 /\ EntriesAt(cache, obs[c].probes[1].key) = obs[c].probes[1].stored

\* C26 witness: gemini failed, the retry on ollama succeeded; the result is
\* stored under ollama's key and nothing is under gemini's key.
C26_Witness ==
    \E c \in Callers :
        /\ obs[c].done /\ obs[c].via = "generate" /\ obs[c].depth = 2 /\ use_cache
        /\ obs[c].failures[1].provider = "gemini"
        /\ ResultOf(c).metrics.model_provider = "ollama"
        /\ cache = {SavedEntry(ResultOf(c))}
        /\ EntriesAt(cache, CacheKey(CallOf(c).code, "gemini", gemini_model)) = {}

\* C27: explain raises "No ML providers are available" only when no
\* registered provider is available: for every requested or default name,
\* registered or not, with auto_fallback=True, if the is_available() of at
\* least one registered provider is true, resolution does not raise.
C27_RaisesOnlyWhenNoneAvailable ==
    \A c \in Callers :
        (/\ obs[c].done /\ obs[c].via = "raise"
         /\ CallOf(c).auto_fallback
         /\ obs[c].error = {Exception("ValueError", "No ML providers are available")})
        => \A p \in ProviderNames : ~KnownAvailable(p)

\* every text the sink of request c received during the whole call, in order
SinkTexts(c) == [i \in 1..Len(obs[c].sink) |-> obs[c].sink[i].text]

\* C28: for every explain call that returns a result and was given a sink,
\* the concatenation in order of all the fragments the sink received during
\* the whole call - those of an attempt that failed before a successful
\* fallback included - equals the returned explanation, up to leading and
\* trailing whitespace.
C28_SinkTextIsExplanation ==
    \A c \in Callers :
        (obs[c].done /\ obs[c].result # {} /\ CallOf(c).stream_callback)
        => Strip(Concat(SinkTexts(c))) = Strip(ResultOf(c).explanation)

\* C29: explain never returns or caches a result whose explanation is
\* empty: for every sequence of fragments, fragments of whitespace only
\* included, an attempt yields a non-empty explanation or fails.
C29_ExplanationNeverEmpty ==
    /\ \A c \in Callers : \A r \in obs[c].result : r.explanation # ""
    /\ \A e \in cache : e.value.explanation # ""

\* C30 as stated: the metrics of every result explain returns, on a cache
\* miss and on a cache hit alike, have end_time set, start_time <= end_time
\* and, if time_to_first_token is set, start_time + time_to_first_token <=
\* end_time.
C30_TimeConsistent ==
    \A c \in Callers :
        \A r \in obs[c].result :
            /\ r.metrics.end_time # {}
            /\ \A t \in r.metrics.end_time :
                  /\ r.metrics.start_time <= t
                  /\ \A d \in r.metrics.time_to_first_token :
                        r.metrics.start_time + d <= t

\* C30 amended: the metrics of every result explain returns have end_time
\* set and start_time <= end_time, on a miss and on a hit alike; on a miss,
\* if time_to_first_token is set then start_time + time_to_first_token <=
\* end_time; on a hit time_to_first_token is the stored one, that of the
\* generation that produced the entry.
C30_TimeConsistentOnMiss ==
    \A c \in Callers :
        \A r \in obs[c].result :
            /\ obs[c].via \in {"generate", "hit"}
            /\ r.metrics.end_time # {}
            /\ \A t \in r.metrics.end_time :
                  /\ r.metrics.start_time <= t
                  /\ obs[c].via = "generate" =>
                        \A d \in r.metrics.time_to_first_token :
                            r.metrics.start_time + d <= t
            /\ obs[c].via = "hit" =>
                  \A v \in obs[c].probes[Len(obs[c].probes)].cached :
                      r.metrics.time_to_first_token = v.metrics.time_to_first_token

\* C30 witness: a call that started at time 1 generated a result whose
\* first text arrived at once; the first-token time is 0, not the clock's 1.
C30_Witness ==
    \E c \in Callers :
        /\ obs[c].done /\ obs[c].via = "generate"
        /\ ResultOf(c).metrics.start_time = 1
        /\ ResultOf(c).metrics.time_to_first_token = {0}
        /\ ResultOf(c).metrics.end_time = {1}

====
